---------------------------- MODULE Spec2Model ----------------------------
(***************************************************************************)
(* Pump-curve interpolation (build_interp) and the pump arrangement search *)
(* of src/code/master.py.                                                  *)
(*                                                                         *)
(* Numbers.  The script computes in IEEE doubles.  Here a float is a       *)
(* record [n, d]: a reduced fraction n/d when d > 0, and the special       *)
(* values +inf = 1/0, -inf = -1/0, NaN = 0/0 when d = 0.  Finite results   *)
(* are exact (rounding is not modelled); division by zero, inf and NaN     *)
(* follow IEEE 754 as numpy applies it (no exception), and Python's own    *)
(* float division raises ZeroDivisionError.                                *)
(***************************************************************************)
EXTENDS Integers, Sequences, FiniteSets, TLC

VARIABLES
    \* ---- curve evaluation on its own (build_interp and its evaluator f)
    points,          \* the (flow, value) samples handed to build_interp
    curve,           \* what build_interp returned, or the error it raised
    q_new,           \* the flow of the last evaluation
    y_new,           \* the result of the last evaluation
    cpc,             \* "start" | "built" | "evaluated" | "failed" | "off"
    \* ---- the script master.py
    Q_total_Ls,      \* total design flow, L/s
    H_total,         \* total dynamic head to cover, m
    head_points, eff_points, power_points,
    head_interp, eff_interp, power_interp,
    q_min_curve, q_max_curve,
    N_par,           \* loop variable of the search
    candidatos,      \* list of candidate records, in enumeration order
    df_candidatos,   \* the list after sort_values("P_total_kW")
    mejor,           \* df_candidatos.iloc[0]
    error,           \* the exception that ended the script, or "none"
    pc,              \* "build" | "loop" | "done" | "failed" | "off"
    \* ---- the wall-thickness table of resultados/final.py
    estaciones,      \* the pump stations: name, segments, design head, pumps
    tramos_est,      \* the rows of the table built so far
    tpc,             \* "rows" | "done" | "off"
    \* ---- the hydraulic profile and the per-station breakdown of master.py
    hf_por_m,        \* friction head per metre of pipe: (f / D) * V**2 / (2 g)
    hf_segmentos,    \* friction loss of each segment computed so far
    hf_total, H_static,
    desglose,        \* per station: L_st, hf_st, dz_st, H_st
    spc              \* "friction" | "totals" | "stations" | "done" | "off"

curveVars == <<points, curve, q_new, y_new, cpc>>
scriptVars == <<Q_total_Ls, H_total, head_points, eff_points, power_points,
                head_interp, eff_interp, power_interp, q_min_curve, q_max_curve,
                N_par, candidatos, df_candidatos, mejor, error, pc>>
tableVars == <<estaciones, tramos_est, tpc>>
profileVars == <<hf_por_m, hf_segmentos, hf_total, H_static, desglose, spc>>
otherVars == <<tableVars, profileVars>>
vars == <<curveVars, scriptVars, otherVars>>

\* the table and the profile are not being computed
OtherOff ==
    /\ estaciones = <<>> /\ tramos_est = <<>> /\ tpc = "off"
    /\ hf_por_m = [n |-> 0, d |-> 0] /\ hf_segmentos = <<>>
    /\ hf_total = [n |-> 0, d |-> 0] /\ H_static = 0
    /\ desglose = <<>> /\ spc = "off"

-----------------------------------------------------------------------------
(* Floats *)

Abs(x) == IF x < 0 THEN -x ELSE x
Sgn(x) == IF x < 0 THEN -1 ELSE IF x > 0 THEN 1 ELSE 0

RECURSIVE GCD(_, _)
GCD(a, b) == IF b = 0 THEN a ELSE GCD(b, a % b)

\* the fraction n/d (d # 0) in lowest terms with a positive denominator
Norm(n, d) ==
    LET g == GCD(Abs(n), Abs(d))
        s == IF d < 0 THEN -1 ELSE 1
    IN  [n |-> s * (n \div g), d |-> Abs(d) \div g]

R(i) == [n |-> i, d |-> 1]
NaN == [n |-> 0, d |-> 0]
Inf(s) == [n |-> s, d |-> 0]
IsNaN(a) == a.d = 0 /\ a.n = 0
IsFinite(a) == a.d > 0

FNeg(a) == [n |-> -a.n, d |-> a.d]

FAdd(a, b) ==
    IF IsNaN(a) \/ IsNaN(b) THEN NaN
    ELSE IF a.d = 0 /\ b.d = 0 THEN (IF a.n = b.n THEN a ELSE NaN)
    ELSE IF a.d = 0 THEN a
    ELSE IF b.d = 0 THEN b
    ELSE Norm(a.n * b.d + b.n * a.d, a.d * b.d)

FSub(a, b) == FAdd(a, FNeg(b))

FMul(a, b) ==
    IF IsNaN(a) \/ IsNaN(b) THEN NaN
    ELSE IF a.d = 0 \/ b.d = 0
         THEN (IF Sgn(a.n) * Sgn(b.n) = 0 THEN NaN ELSE Inf(Sgn(a.n) * Sgn(b.n)))
    ELSE Norm(a.n * b.n, a.d * b.d)

\* IEEE division as numpy performs it: x/0 is +-inf, 0/0 is NaN, no exception.
\* (a zero divisor here is always the +0.0 of x - x)
FDiv(a, b) ==
    IF IsNaN(a) \/ IsNaN(b) THEN NaN
    ELSE IF a.d = 0 /\ b.d = 0 THEN NaN
    ELSE IF a.d = 0 THEN Inf(a.n * (IF b.n < 0 THEN -1 ELSE 1))
    ELSE IF b.d = 0 THEN R(0)
    ELSE IF b.n = 0 THEN (IF a.n = 0 THEN NaN ELSE Inf(Sgn(a.n)))
    ELSE Norm(a.n * b.d, a.d * b.n)

\* comparisons: every comparison with NaN is false
FLt(a, b) ==
    IF IsNaN(a) \/ IsNaN(b) THEN FALSE
    ELSE IF a.d = 0 /\ b.d = 0 THEN a.n < b.n
    ELSE IF a.d = 0 THEN a.n < 0
    ELSE IF b.d = 0 THEN b.n > 0
    ELSE a.n * b.d < b.n * a.d

FEq(a, b) == ~IsNaN(a) /\ ~IsNaN(b) /\ a = b
FLe(a, b) == FLt(a, b) \/ FEq(a, b)

\* math.ceil of a finite float
Ceil(a) == -((-a.n) \div a.d)

-----------------------------------------------------------------------------
(* build_interp: the curve model.  A point is a pair <<flow, value>>. *)

\* list.insert for a stable sort: p goes after every element whose flow is <= its own
RECURSIVE InsertByFlow(_, _)
InsertByFlow(p, s) ==
    IF s = <<>> THEN <<p>>
    ELSE IF s[Len(s)][1] <= p[1] THEN Append(s, p)
    ELSE Append(InsertByFlow(p, SubSeq(s, 1, Len(s) - 1)), s[Len(s)])

\* a faulty variant of sorted: the samples are used in the order given
sorted_unsorted(pts) == pts

\* sorted(points, key=lambda x: x[0]): ascending by flow, stable
RECURSIVE sorted(_)
sorted(pts) ==
    IF pts = <<>> THEN <<>>
    ELSE InsertByFlow(pts[Len(pts)], sorted(SubSeq(pts, 1, Len(pts) - 1)))

\* build_interp(points): the arrays q, y the closure f keeps, with q.min() and
\* q.max().  The only failure at construction is q.min() on an empty array
\* (ValueError); nothing checks the number of points or their flows.
build_interp_validating(pts) ==
    LET s == sorted(pts)
        bad == Len(s) < 2 \/ \E i \in 1..(Len(s) - 1) : s[i][1] = s[i + 1][1]
    IN  IF bad
        THEN [err |-> "InvalidInput", q |-> <<>>, y |-> <<>>, qmin |-> NaN, qmax |-> NaN]
        ELSE [err |-> "none",
              q |-> [i \in 1..Len(s) |-> R(s[i][1])],
              y |-> [i \in 1..Len(s) |-> R(s[i][2])],
              qmin |-> R(s[1][1]), qmax |-> R(s[Len(s)][1])]

build_interp(pts) ==
    LET s == sorted(pts)
    IN  IF Len(s) = 0
        THEN [err |-> "ValueError", q |-> <<>>, y |-> <<>>, qmin |-> NaN, qmax |-> NaN]
        ELSE [err |-> "none",
              q |-> [i \in 1..Len(s) |-> R(s[i][1])],
              y |-> [i \in 1..Len(s) |-> R(s[i][2])],
              qmin |-> R(s[1][1]), qmax |-> R(s[Len(s)][1])]

\* np.interp(x, xp, fp) for a scalar x: flat outside [xp[0], xp[-1]], the sample
\* itself at a sample flow, and inside a bracket fp[j] + slope * (x - xp[j]) with
\* j the last index whose flow is <= x.
np_interp(x, xp, fp) ==
    LET n == Len(xp)
    IN  IF FLt(xp[n], x) THEN fp[n]
        ELSE IF FLt(x, xp[1]) THEN fp[1]
        ELSE LET j == CHOOSE k \in 1..n :
                        FLe(xp[k], x) /\ \A m \in (k + 1)..n : ~FLe(xp[m], x)
             IN  IF j = n THEN fp[n]
                 ELSE IF FEq(xp[j], x) THEN fp[j]
                 ELSE FAdd(FMul(FDiv(FSub(fp[j + 1], fp[j]), FSub(xp[j + 1], xp[j])),
                                FSub(x, xp[j])), fp[j])

Value(v) == [err |-> "none", val |-> v]
Raise(e) == [err |-> e, val |-> NaN]

\* a faulty variant of f: flat clamping outside the sampled range (np.interp alone)
f_clamped(c, qx) ==
    IF Len(c.q) < 2 THEN Raise("IndexError") ELSE Value(np_interp(qx, c.q, c.y))

\* a faulty variant of f: the low edge extended from the second sample's value
f_wrong_anchor(c, qx) ==
    LET n == Len(c.q)
    IN  IF n < 2 THEN Raise("IndexError")
        ELSE IF FLe(qx, c.q[1])
        THEN Value(FAdd(c.y[2], FMul(FDiv(FSub(c.y[2], c.y[1]), FSub(c.q[2], c.q[1])),
                                     FSub(qx, c.q[1]))))
        ELSE IF FLe(c.q[n], qx)
        THEN Value(FAdd(c.y[n], FMul(FDiv(FSub(c.y[n], c.y[n - 1]),
                                          FSub(c.q[n], c.q[n - 1])),
                                     FSub(qx, c.q[n]))))
        ELSE Value(np_interp(qx, c.q, c.y))

\* f(q_new) of build_interp, for a scalar flow qx, on the arrays of curve c.
\* With a single sample y[1] (low edge) and y[-2] (high edge) are out of range.
f(c, qx) ==
    LET n == Len(c.q)
    IN  IF FLe(qx, c.q[1])
        THEN IF n < 2 THEN Raise("IndexError")
             ELSE Value(FAdd(c.y[1],
                             FMul(FDiv(FSub(c.y[2], c.y[1]), FSub(c.q[2], c.q[1])),
                                  FSub(qx, c.q[1]))))
        ELSE IF FLe(c.q[n], qx)
        THEN IF n < 2 THEN Raise("IndexError")
             ELSE Value(FAdd(c.y[n],
                             FMul(FDiv(FSub(c.y[n], c.y[n - 1]), FSub(c.q[n], c.q[n - 1])),
                                  FSub(qx, c.q[n]))))
        ELSE Value(np_interp(qx, c.q, c.y))

-----------------------------------------------------------------------------
(* Curve data *)

\* the digitized curves of the script
ScriptHeadPoints == <<<<40, 570>>, <<80, 560>>, <<160, 490>>, <<200, 440>>, <<280, 220>>>>
ScriptEffPoints == <<<<40, 33>>, <<80, 56>>, <<160, 81>>, <<220, 85>>, <<280, 79>>>>
ScriptPowerPoints ==
    <<<<40, 1200>>, <<80, 1400>>, <<160, 1750>>, <<200, 1950>>, <<260, 2150>>, <<280, 3400>>>>
\* the same head samples before the 400 m shift, given out of order
RawHeadPointsShuffled ==
    <<<<200, 840>>, <<40, 970>>, <<280, 620>>, <<80, 960>>, <<160, 890>>>>

\* bounds of the generated sample lists
MaxPts == 3
MaxFlow == 3
MaxVal == 2

GridPoints == (1..MaxFlow) \X (0..MaxVal)
GridPointLists == UNION {[1..n -> GridPoints] : n \in 0..MaxPts}
NamedPointLists == {ScriptHeadPoints, ScriptEffPoints, ScriptPowerPoints, RawHeadPointsShuffled}

\* query flows: halves from 0 to MaxFlow + 1, and flows around the digitized range
GridQueries == {Norm(k, 2) : k \in 0..(2 * MaxFlow + 2)}
NamedQueries == {R(10), R(40), R(120), R(200), R(280), R(400), Norm(800, 3)}

-----------------------------------------------------------------------------
(* The curve model on its own: build_interp(points), then f at any flow *)

None == "none"

ScriptOff ==
    /\ Q_total_Ls = 0 /\ H_total = NaN
    /\ head_points = <<>> /\ eff_points = <<>> /\ power_points = <<>>
    /\ head_interp = None /\ eff_interp = None /\ power_interp = None
    /\ q_min_curve = NaN /\ q_max_curve = NaN
    /\ N_par = 0 /\ candidatos = <<>> /\ df_candidatos = <<>> /\ mejor = None
    /\ error = None /\ pc = "off"

InitCurve ==
    /\ points \in GridPointLists \cup NamedPointLists
    /\ curve = None /\ q_new = NaN /\ y_new = None /\ cpc = "start"
    /\ ScriptOff
    /\ OtherOff

\* head_interp, qmin_h, qmax_h = build_interp(head_points)
Construct ==
    /\ cpc = "start"
    /\ curve' = build_interp(points)
    /\ cpc' = IF curve'.err = "none" THEN "built" ELSE "failed"
    /\ UNCHANGED <<points, q_new, y_new, scriptVars, otherVars>>

\* head_interp(q): a call of the evaluator (it keeps no state, so one call per run)
Estimate ==
    /\ cpc = "built"
    /\ \E qx \in GridQueries \cup NamedQueries :
         /\ q_new' = qx
         /\ y_new' = f(curve, qx)
    /\ cpc' = "evaluated"
    /\ UNCHANGED <<points, curve, scriptVars, otherVars>>

NextCurve == Construct \/ Estimate

SpecCurve == InitCurve /\ [][NextCurve]_vars

-----------------------------------------------------------------------------
(* build_interp of resultados/final.py, on its own *)

\* head_pts of final.py (eff_pts and power_pts are those of master.py)
FinalHeadPts == <<<<40, 970>>, <<80, 960>>, <<160, 890>>, <<200, 840>>, <<280, 620>>>>

\* tuple order of Python: by flow, then by value
TupleLe(a, b) == a[1] < b[1] \/ (a[1] = b[1] /\ a[2] <= b[2])

RECURSIVE InsertByTuple(_, _)
InsertByTuple(p, s) ==
    IF s = <<>> THEN <<p>>
    ELSE IF TupleLe(s[Len(s)], p) THEN Append(s, p)
    ELSE Append(InsertByTuple(p, SubSeq(s, 1, Len(s) - 1)), s[Len(s)])

\* sorted(pts)
RECURSIVE sorted_tuples(_)
sorted_tuples(pts) ==
    IF pts = <<>> THEN <<>>
    ELSE InsertByTuple(pts[Len(pts)], sorted_tuples(SubSeq(pts, 1, Len(pts) - 1)))

\* build_interp(pts) of final.py: x, y = zip(*sorted(pts)) cannot unpack an empty
\* list (ValueError); otherwise the arrays x, y with min(x), max(x)
build_interp_final(pts) ==
    LET s == sorted_tuples(pts)
    IN  IF Len(s) = 0
        THEN [err |-> "ValueError", q |-> <<>>, y |-> <<>>, qmin |-> NaN, qmax |-> NaN]
        ELSE [err |-> "none",
              q |-> [i \in 1..Len(s) |-> R(s[i][1])],
              y |-> [i \in 1..Len(s) |-> R(s[i][2])],
              qmin |-> R(s[1][1]), qmax |-> R(s[Len(s)][1])]

\* f(q) of final.py: float(np.interp(q, x, y)), nothing else
f_final(c, qx) == Value(np_interp(qx, c.q, c.y))

InitFinal ==
    /\ points \in GridPointLists \cup {FinalHeadPts, ScriptEffPoints, ScriptPowerPoints}
    /\ curve = None /\ q_new = NaN /\ y_new = None /\ cpc = "start"
    /\ ScriptOff
    /\ OtherOff

\* Hf, qmin_h, qmax_h = build_interp(head_pts)
ConstructFinal ==
    /\ cpc = "start"
    /\ curve' = build_interp_final(points)
    /\ cpc' = IF curve'.err = "none" THEN "built" ELSE "failed"
    /\ UNCHANGED <<points, q_new, y_new, scriptVars, otherVars>>

\* Hf(q): a call of the evaluator
EstimateFinal ==
    /\ cpc = "built"
    /\ \E qx \in GridQueries \cup NamedQueries :
         /\ q_new' = qx
         /\ y_new' = f_final(curve, qx)
    /\ cpc' = "evaluated"
    /\ UNCHANGED <<points, curve, scriptVars, otherVars>>

NextFinal == ConstructFinal \/ EstimateFinal

SpecFinal == InitFinal /\ [][NextFinal]_vars

-----------------------------------------------------------------------------
(* The script master.py: curve construction, the search over N_par, the ranking *)

\* for N_par in range(1, 10)
NparFirst == 1
NparStop == 10

\* Q_total_Ls = 800.0
ScriptQTotal == 800
\* H_total = H_static + hf_total = 2154 + 188.72, as printed: 2342.7 m
ScriptHTotal == Norm(23427, 10)
\* the target head of the worked scenario, 2400 m
ScenarioHTotal == R(2400)

\* bound of the total flows tried: multiples of 40 L/s from -40 to 40 * MaxQSteps
MaxQSteps == 20
QTotals == {40 * k : k \in (-1)..MaxQSteps}

ScriptCurves == [head |-> ScriptHeadPoints, eff |-> ScriptEffPoints, power |-> ScriptPowerPoints]
\* a head curve digitized with a single sample
OnePointHeadCurves ==
    [head |-> <<<<40, 570>>>>, eff |-> ScriptEffPoints, power |-> ScriptPowerPoints]
\* a power curve with no sample
NoPowerCurves == [head |-> ScriptHeadPoints, eff |-> ScriptEffPoints, power |-> <<>>]
\* a flat head curve and a power curve proportional to the flow from 400 L/s up:
\* one pump at 800 L/s draws what two pumps at 400 L/s draw together
TiedCurves ==
    [head |-> <<<<40, 500>>, <<80, 500>>>>, eff |-> ScriptEffPoints,
     power |-> <<<<100, 500>>, <<400, 500>>, <<800, 1000>>>>]
CurveSets == {ScriptCurves, OnePointHeadCurves, NoPowerCurves, TiedCurves}

CurveOff ==
    points = <<>> /\ curve = None /\ q_new = NaN /\ y_new = None /\ cpc = "off"

Init ==
    /\ Q_total_Ls \in QTotals
    /\ H_total \in {ScriptHTotal, ScenarioHTotal}
    /\ \E c \in CurveSets :
         head_points = c.head /\ eff_points = c.eff /\ power_points = c.power
    /\ head_interp = None /\ eff_interp = None /\ power_interp = None
    /\ q_min_curve = NaN /\ q_max_curve = NaN
    /\ N_par = 0 /\ candidatos = <<>> /\ df_candidatos = <<>> /\ mejor = None
    /\ error = None /\ pc = "build"
    /\ CurveOff
    /\ OtherOff

FMax(a, b) == IF FLt(a, b) THEN b ELSE a
FMin(a, b) == IF FLt(b, a) THEN b ELSE a

\* lines 111-117: the three curves are built, then the common flow range
BuildCurves ==
    /\ pc = "build"
    /\ LET h == build_interp(head_points)
           e == build_interp(eff_points)
           p == build_interp(power_points)
           bad == {c.err : c \in {h, e, p}} \ {"none"}
       IN  IF bad # {}
           THEN /\ pc' = "failed"
                /\ error' = CHOOSE x \in bad : TRUE
                /\ UNCHANGED <<head_interp, eff_interp, power_interp,
                               q_min_curve, q_max_curve, N_par>>
           ELSE /\ head_interp' = h /\ eff_interp' = e /\ power_interp' = p
                /\ q_min_curve' = FMax(h.qmin, FMax(e.qmin, p.qmin))
                /\ q_max_curve' = FMin(h.qmax, FMin(e.qmax, p.qmax))
                /\ N_par' = NparFirst
                /\ pc' = "loop"
                /\ UNCHANGED error
    /\ UNCHANGED <<Q_total_Ls, H_total, head_points, eff_points, power_points,
                   candidatos, df_candidatos, mejor, curveVars, otherVars>>

\* math.ceil(H_total / Hb): Python's float division raises on a zero divisor,
\* math.ceil raises ValueError on NaN; H_total / inf is 0.0
N_st_of(Hb) ==
    IF IsNaN(Hb) THEN [err |-> "ValueError", val |-> 0]
    ELSE IF Hb.d = 0 THEN [err |-> "none", val |-> 0]
    ELSE IF Hb.n = 0 THEN [err |-> "ZeroDivisionError", val |-> 0]
    ELSE [err |-> "none", val |-> Ceil(FDiv(H_total, Hb))]

\* lines 153-174: the body of the loop for one N_par: the record appended, or the
\* exception raised on the way
candidato(N) ==
    LET Q_bomba_Ls == Norm(Q_total_Ls, N)
        Hb == f(head_interp, Q_bomba_Ls)
        etab == f(eff_interp, Q_bomba_Ls)
        Pb == f(power_interp, Q_bomba_Ls)
        N_st == N_st_of(Hb.val)
    IN  IF Hb.err # "none" THEN Raise(Hb.err)
        ELSE IF etab.err # "none" THEN Raise(etab.err)
        ELSE IF Pb.err # "none" THEN Raise(Pb.err)
        ELSE IF N_st.err # "none" THEN Raise(N_st.err)
        ELSE Value([N_par |-> N,
                    Q_bomba_Ls |-> Q_bomba_Ls,
                    H_bomba_m |-> Hb.val,
                    eta |-> etab.val,
                    P_bomba_kW |-> Pb.val,
                    N_est |-> N_st.val,
                    H_total_disp_m |-> FMul(R(N_st.val), Hb.val),
                    P_total_kW |-> FMul(R(N * N_st.val), Pb.val)])

\* a faulty variant of SearchStep: a per-pump flow outside the range common to
\* the three curves is skipped (continue), as a filter on q_min_curve and
\* q_max_curve would do
SearchStep_filtering ==
    /\ pc = "loop" /\ N_par < NparStop
    /\ LET c == candidato(N_par)
           Q == Norm(Q_total_Ls, N_par)
       IN  IF FLt(Q, q_min_curve) \/ FLt(q_max_curve, Q)
           THEN /\ N_par' = N_par + 1
                /\ UNCHANGED <<pc, error, candidatos>>
           ELSE IF c.err # "none"
           THEN /\ pc' = "failed" /\ error' = c.err
                /\ UNCHANGED <<N_par, candidatos>>
           ELSE /\ candidatos' = Append(candidatos, c.val)
                /\ N_par' = N_par + 1
                /\ UNCHANGED <<pc, error>>
    /\ UNCHANGED <<Q_total_Ls, H_total, head_points, eff_points, power_points,
                   head_interp, eff_interp, power_interp, q_min_curve, q_max_curve,
                   df_candidatos, mejor, curveVars, otherVars>>

\* one iteration of for N_par in range(1, 10); an exception ends the script with
\* the list as far as it was built
SearchStep ==
    /\ pc = "loop" /\ N_par < NparStop
    /\ LET c == candidato(N_par)
       IN  IF c.err # "none"
           THEN /\ pc' = "failed" /\ error' = c.err
                /\ UNCHANGED <<N_par, candidatos>>
           ELSE /\ candidatos' = Append(candidatos, c.val)
                /\ N_par' = N_par + 1
                /\ UNCHANGED <<pc, error>>
    /\ UNCHANGED <<Q_total_Ls, H_total, head_points, eff_points, power_points,
                   head_interp, eff_interp, power_interp, q_min_curve, q_max_curve,
                   df_candidatos, mejor, curveVars, otherVars>>

\* sort_values places a before b: ascending, NaN last
KeyBefore(a, b) == IsNaN(b) \/ FLe(a, b)

\* every order of the rows S of c that is ascending by P_total_kW
RECURSIVE AscendingOrders(_, _)
AscendingOrders(c, S) ==
    IF S = {} THEN {<<>>}
    ELSE UNION {{<<c[i]>> \o t : t \in AscendingOrders(c, S \ {i})} :
                i \in {i \in S : \A j \in S : KeyBefore(c[i].P_total_kW, c[j].P_total_kW)}}

\* a faulty variant of sort_values: the frame is left in enumeration order
sort_values_unsorted(c) == {c}

\* df.sort_values("P_total_kW"): the default kind is quicksort, which is not
\* stable: rows of equal power come out in an order the build decides
sort_values(c) == AscendingOrders(c, 1..Len(c))

\* a faulty variant of iloc0: the last row
iloc_last(df) == df[Len(df)]

\* df_candidatos.iloc[0]
iloc0(df) == df[1]

\* a faulty variant of sin_candidatos: a non-positive total flow counts as no candidate
sin_candidatos_o_caudal_no_positivo == candidatos = <<>> \/ Q_total_Ls <= 0

\* if not candidatos
sin_candidatos == candidatos = <<>>

\* lines 176-191: after the loop, the check for an empty list, the ranking and
\* the selection
RankAndSelect ==
    /\ pc = "loop" /\ N_par = NparStop
    /\ IF sin_candidatos
       THEN /\ pc' = "failed" /\ error' = "RuntimeError"
            /\ UNCHANGED <<df_candidatos, mejor>>
       ELSE /\ \E df \in sort_values(candidatos) :
                 /\ df_candidatos' = df
                 /\ mejor' = iloc0(df)
            /\ pc' = "done"
            /\ UNCHANGED error
    /\ UNCHANGED <<Q_total_Ls, H_total, head_points, eff_points, power_points,
                   head_interp, eff_interp, power_interp, q_min_curve, q_max_curve,
                   N_par, candidatos, curveVars, otherVars>>

Next == BuildCurves \/ SearchStep \/ RankAndSelect

Spec == Init /\ [][Next]_vars

-----------------------------------------------------------------------------
(* The wall-thickness table of resultados/final.py (section 3) *)

\* TRAMOS of final.py: (ID, L, dZ)
TRAMOS ==
    <<<<"2-3", 23000, 845>>, <<"3-4", 2870, 40>>, <<"4-5", 7840, 617>>,
      <<"5-6", 8670, 125>>, <<"6-7", 320, -18>>, <<"7-8", 9900, 170>>,
      <<"8-9", 5870, 375>>>>

\* estaciones of final.py, with the design heads H1, H2, H3
Estaciones(H1, H2, H3) ==
    <<[nombre |-> "Est1 (2->4)", tramos |-> {"2-3", "3-4"}, H |-> H1, N |-> 7],
      [nombre |-> "Est2 (4->6)", tramos |-> {"4-5", "5-6"}, H |-> H2, N |-> 4],
      [nombre |-> "Est3 (6->9)", tramos |-> {"6-7", "7-8", "8-9"}, H |-> H3, N |-> 3]>>

\* the heads of final.py: 930, 840, 656.67
FinalHeads == <<R(930), R(840), Norm(65667, 100)>>
HeadChoices == {FinalHeads[i] : i \in 1..3}

\* rho * g = 1000 * 9.81
rho_g == R(9810)
\* D * 1000 / (2 * sigma_allow) = 0.8 * 1000 / (2 * 448e6 * 0.72), in mm per Pa
t_per_Pa == Norm(1, 806400)

InitTable ==
    /\ \E H1, H2, H3 \in HeadChoices : estaciones = Estaciones(H1, H2, H3)
    /\ tramos_est = <<>> /\ tpc = "rows"
    /\ hf_por_m = NaN /\ hf_segmentos = <<>> /\ hf_total = NaN /\ H_static = 0
    /\ desglose = <<>> /\ spc = "off"
    /\ ScriptOff /\ CurveOff

\* zip(TRAMOS, estaciones*3): the k-th segment with the k-th entry of the station
\* list repeated three times
zip_tramos_estaciones ==
    LET e3 == estaciones \o estaciones \o estaciones
        n == IF Len(TRAMOS) < Len(e3) THEN Len(TRAMOS) ELSE Len(e3)
    IN  [k \in 1..n |-> <<TRAMOS[k], e3[k]>>]

\* one iteration of the loop of lines 132-135
ThicknessRow ==
    /\ tpc = "rows"
    /\ LET z == zip_tramos_estaciones
           k == Len(tramos_est) + 1
           ID == z[k][1][1]
           H_grupo == z[k][2].H
           P_int == FMul(rho_g, H_grupo)
       IN  /\ tramos_est' = Append(tramos_est,
                                   [Tramo |-> ID,
                                    Head |-> H_grupo,
                                    P_bar |-> FDiv(P_int, R(100000)),
                                    t_req_mm |-> FMul(P_int, t_per_Pa)])
           /\ tpc' = IF k = Len(z) THEN "done" ELSE "rows"
    /\ UNCHANGED <<estaciones, profileVars, scriptVars, curveVars>>

NextTable == ThicknessRow

SpecTable == InitTable /\ [][NextTable]_vars

-----------------------------------------------------------------------------
(* The hydraulic profile and the per-station breakdown of code/master.py
   (sections 1, 3 and 5).  Rounding of the float sums is not modelled. *)

\* L_m = [l * 1000.0 for l in L_km]
L_m == <<23000, 2870, 7840, 8670, 320, 9900, 5870>>
dZ == <<845, 40, 617, 125, -18, 170, 375>>
alts == [n \in 2..9 |->
            CASE n = 2 -> 745 [] n = 3 -> 1590 [] n = 4 -> 1630 [] n = 5 -> 2247
              [] n = 6 -> 2372 [] n = 7 -> 2354 [] n = 8 -> 2524 [] n = 9 -> 2899]

Stations == <<1, 2, 3>>

\* positions in the Python lists, counted from 0 as in the source
stations_segments ==
    [st \in 1..3 |-> CASE st = 1 -> <<0, 1>> [] st = 2 -> <<2, 3>> [] st = 3 -> <<4, 5, 6>>]

\* a faulty variant: station 3 measured from point 7
station_nodes_wrong ==
    [st \in 1..3 |-> CASE st = 1 -> <<2, 4>> [] st = 2 -> <<4, 6>> [] st = 3 -> <<7, 9>>]

station_nodes ==
    [st \in 1..3 |-> CASE st = 1 -> <<2, 4>> [] st = 2 -> <<4, 6>> [] st = 3 -> <<6, 9>>]

\* sum(...) over a list of floats, from the left, starting at 0
RECURSIVE FSum(_)
FSum(xs) == IF xs = <<>> THEN R(0) ELSE FAdd(FSum(SubSeq(xs, 1, Len(xs) - 1)), xs[Len(xs)])

\* sum(...) over a list of integers
RECURSIVE ISum(_)
ISum(xs) == IF xs = <<>> THEN 0 ELSE ISum(SubSeq(xs, 1, Len(xs) - 1)) + xs[Len(xs)]

\* [xs[i] for i in idx], idx counted from 0
Pick(xs, idx) == [j \in 1..Len(idx) |-> xs[idx[j] + 1]]

\* f * (1 / D) * (V**2 / (2 g)), the head loss per metre, drawn from k / GradientDen
MaxGradient == 20
GradientDen == 1000
Gradients == {Norm(k, GradientDen) : k \in 0..MaxGradient}

InitStations ==
    /\ hf_por_m \in Gradients
    /\ hf_segmentos = <<>> /\ hf_total = NaN /\ H_static = 0
    /\ desglose = <<>> /\ spc = "friction"
    /\ estaciones = <<>> /\ tramos_est = <<>> /\ tpc = "off"
    /\ ScriptOff /\ CurveOff

scriptVarsButHTotal ==
    <<Q_total_Ls, head_points, eff_points, power_points,
      head_interp, eff_interp, power_interp, q_min_curve, q_max_curve,
      N_par, candidatos, df_candidatos, mejor, error, pc>>

\* one iteration of the loop of lines 127-129
FrictionStep ==
    /\ spc = "friction"
    /\ LET Li == L_m[Len(hf_segmentos) + 1]
           hf_i == FMul(hf_por_m, R(Li))
       IN  /\ hf_segmentos' = Append(hf_segmentos, hf_i)
           /\ spc' = IF Len(hf_segmentos) + 1 = Len(L_m) THEN "totals" ELSE "friction"
    /\ UNCHANGED <<hf_por_m, hf_total, H_static, desglose, tableVars,
                   scriptVars, curveVars>>

\* lines 131-133
Totals ==
    /\ spc = "totals"
    /\ hf_total' = FSum(hf_segmentos)
    /\ H_static' = ISum(dZ)
    /\ H_total' = FAdd(R(H_static'), hf_total')
    /\ spc' = "stations"
    /\ UNCHANGED <<hf_por_m, hf_segmentos, desglose, tableVars,
                   scriptVarsButHTotal, curveVars>>

\* one iteration of the loop of lines 222-228
StationStep ==
    /\ spc = "stations"
    /\ LET st == Stations[Len(desglose) + 1]
           seg_idx == stations_segments[st]
           L_st == ISum(Pick(L_m, seg_idx))
           hf_st == FSum(Pick(hf_segmentos, seg_idx))
           n_ini == station_nodes[st][1]
           n_fin == station_nodes[st][2]
           dz_st == alts[n_fin] - alts[n_ini]
           H_st == FAdd(R(dz_st), hf_st)
       IN  /\ desglose' = Append(desglose,
                                 [st |-> st, L_st |-> L_st, dz_st |-> dz_st,
                                  hf_st |-> hf_st, H_st |-> H_st])
           /\ spc' = IF Len(desglose) + 1 = Len(Stations) THEN "done" ELSE "stations"
    /\ UNCHANGED <<hf_por_m, hf_segmentos, hf_total, H_static, tableVars,
                   scriptVars, curveVars>>

NextStations == FrictionStep \/ Totals \/ StationStep

SpecStations == InitStations /\ [][NextStations]_vars

-----------------------------------------------------------------------------
(* Properties of the curve model, stated on the samples as given (unsorted) *)

Flows == {points[i][1] : i \in 1..Len(points)}
MinFlow == CHOOSE m \in Flows : \A x \in Flows : m <= x
MaxFlow_ == CHOOSE m \in Flows : \A x \in Flows : x <= m
\* at least two samples, no two with the same flow
ValidPoints == Len(points) >= 2 /\ Cardinality(Flows) = Len(points)
\* the value sampled at flow x (ValidPoints: there is one)
SampleAt(x) == points[CHOOSE i \in 1..Len(points) : points[i][1] = x][2]
SecondFlow == CHOOSE m \in Flows \ {MinFlow} : \A x \in Flows \ {MinFlow} : m <= x
SecondLastFlow == CHOOSE m \in Flows \ {MaxFlow_} : \A x \in Flows \ {MaxFlow_} : x <= m
\* the straight line through the samples at flows a and b, at flow x
LineThrough(a, b, x) ==
    FAdd(R(SampleAt(a)),
         FMul(Norm(SampleAt(b) - SampleAt(a), b - a), FSub(x, R(a))))
Evaluated == cpc = "evaluated"

\* C3: outside the sampled range (edges included) the evaluator extends the edge
\* segment linearly: at or below the minimum flow along the two lowest samples, at
\* or above the maximum flow along the two highest; the flat edge value comes out
\* only for a zero slope or at the edge flow itself; the head curve at flow 10
\* gives 977.5.
C3_EdgeExtrapolation ==
    (Evaluated /\ ValidPoints) =>
        /\ FLe(q_new, R(MinFlow)) =>
             /\ y_new = Value(LineThrough(MinFlow, SecondFlow, q_new))
             /\ y_new.val = R(SampleAt(MinFlow)) =>
                  (SampleAt(SecondFlow) = SampleAt(MinFlow) \/ q_new = R(MinFlow))
        /\ FLe(R(MaxFlow_), q_new) =>
             /\ y_new = Value(LineThrough(SecondLastFlow, MaxFlow_, q_new))
             /\ y_new.val = R(SampleAt(MaxFlow_)) =>
                  (SampleAt(SecondLastFlow) = SampleAt(MaxFlow_) \/ q_new = R(MaxFlow_))
        /\ (points = RawHeadPointsShuffled /\ q_new = R(10)) => y_new.val = Norm(1955, 2)

C3_Witness ==
    /\ Evaluated /\ points = RawHeadPointsShuffled
    /\ q_new = R(10) /\ y_new = Value(Norm(1955, 2))

\* C4: strictly inside the sampled range the evaluator returns the linear
\* interpolation between the two samples whose flows bracket the query, whatever
\* the order of the samples on input; the head curve at flow 120 gives 925.
C4_BracketInterpolation ==
    (Evaluated /\ ValidPoints /\ FLt(R(MinFlow), q_new) /\ FLt(q_new, R(MaxFlow_))) =>
        /\ \A a, b \in Flows :
             (/\ FLe(R(a), q_new) /\ FLt(q_new, R(b))
              /\ ~\E c \in Flows : a < c /\ c < b)
             => y_new = Value(LineThrough(a, b, q_new))
        /\ (points = RawHeadPointsShuffled /\ q_new = R(120)) => y_new.val = R(925)

C4_Witness ==
    /\ Evaluated /\ points = RawHeadPointsShuffled
    /\ q_new = R(120) /\ y_new = Value(R(925))

\* C5: round trip: at the flow of any sample (first, last or interior) the
\* evaluator returns that sample's value.
C5_RoundTrip ==
    (Evaluated /\ ValidPoints) =>
        \A i \in 1..Len(points) :
            q_new = R(points[i][1]) => y_new = Value(R(points[i][2]))

C5_Witness ==
    /\ Evaluated /\ points = RawHeadPointsShuffled
    /\ q_new = R(200) /\ y_new = Value(R(840))

\* C6 as stated: fewer than two samples, or two samples with the same flow, make
\* the construction fail: no evaluator is returned and nothing is evaluated.
C6_ConstructionRejects ==
    ~ValidPoints => cpc \in {"start", "failed"}

\* the number of samples at flow x
SamplesAt(x) == Cardinality({i \in 1..Len(points) : points[i][1] = x})

\* C6 amended: build_interp validates nothing.  Only the empty list fails at
\* construction (ValueError of q.min()).  A single sample yields an evaluator whose
\* every call raises IndexError.  Two or more samples always evaluate without an
\* exception, and the value is non-finite (inf or NaN) exactly when the query is at
\* or beyond an edge whose flow two samples share.
C6_NoValidation ==
    /\ (points = <<>> /\ cpc # "start") => (cpc = "failed" /\ curve.err = "ValueError")
    /\ (points # <<>> /\ cpc # "start") =>
         (cpc \in {"built", "evaluated"} /\ curve.err = "none")
    /\ (Evaluated /\ Len(points) = 1) => y_new.err = "IndexError"
    /\ (Evaluated /\ Len(points) >= 2) =>
         /\ y_new.err = "none"
         /\ ~IsFinite(y_new.val) <=>
              \/ FLe(q_new, R(MinFlow)) /\ SamplesAt(MinFlow) >= 2
              \/ FLt(R(MinFlow), q_new) /\ FLe(R(MaxFlow_), q_new)
                   /\ SamplesAt(MaxFlow_) >= 2

C6_Witness ==
    /\ Evaluated /\ Len(points) = 2 /\ points[1][1] = points[2][1]
    /\ y_new.err = "none" /\ ~IsFinite(y_new.val)

-----------------------------------------------------------------------------
(* Properties of the arrangement search *)

\* the run of the script as written: its flow, its head, its digitized curves
ScriptInputs ==
    /\ Q_total_Ls = ScriptQTotal /\ H_total = ScriptHTotal
    /\ head_points = ScriptHeadPoints /\ eff_points = ScriptEffPoints
    /\ power_points = ScriptPowerPoints

Done == pc = "done"
Covers(c) == ~FLt(FMul(R(c.N_est), c.H_bomba_m), H_total)
Rows(df) == {df[i] : i \in 1..Len(df)}
MinPowerRows == {c \in Rows(candidatos) :
                    \A o \in Rows(candidatos) : FLe(c.P_total_kW, o.P_total_kW)}

\* C1 as stated: in the script's own run no ranked candidate, and so not the
\* selected one, has N_est * H_bomba_m < H_total.
C1_CoverageInvariant ==
    (ScriptInputs /\ Done) =>
        /\ \A i \in 1..Len(df_candidatos) : Covers(df_candidatos[i])
        /\ Covers(mejor)

\* C2: the ranked list is ascending in P_total_kW and the selected candidate's
\* power is at most that of every candidate evaluated.
C2_SortedByPower ==
    Done =>
        /\ Len(df_candidatos) = Len(candidatos)
        /\ \A i, j \in 1..Len(df_candidatos) :
             i < j => FLe(df_candidatos[i].P_total_kW, df_candidatos[j].P_total_kW)
        /\ \A i \in 1..Len(candidatos) :
             FLe(mejor.P_total_kW, candidatos[i].P_total_kW)

\* the script's run ranked: N_par = 2 first, N_par = 3 last
C2_Witness ==
    /\ ScriptInputs /\ Done /\ Len(df_candidatos) = 9
    /\ df_candidatos[1].N_par = 2 /\ df_candidatos[9].N_par = 3

\* C7 as stated: a non-positive total flow ends the search with the no-candidate
\* error and nothing selected.
C7_NonPositiveFlowFails ==
    Q_total_Ls <= 0 => (pc # "done" /\ mejor = None)

\* C7 amended: the no-candidate error is raised only on an empty list after the
\* loop, which the fixed range 1..9 never leaves: every completed iteration
\* appends a record, also for a non-positive flow, and a run that ends without an
\* exception holds nine candidates and a selected one.
C7_NoCandidateErrorNeverRaised ==
    /\ error # "RuntimeError"
    /\ pc = "loop" => Len(candidatos) = N_par - NparFirst
    /\ Done => (Len(candidatos) = NparStop - NparFirst /\ mejor \in Rows(candidatos))

C7_Witness ==
    /\ Q_total_Ls <= 0 /\ Done /\ error = None
    /\ Len(candidatos) = 9 /\ mejor \in Rows(candidatos)

\* C8 as stated: candidates of equal power keep their enumeration order in the
\* ranked list, and the selected one is the minimum-power candidate of smallest
\* N_par.
C8_StableTies ==
    Done =>
        /\ \A i, j \in 1..Len(df_candidatos) :
             (i < j /\ FEq(df_candidatos[i].P_total_kW, df_candidatos[j].P_total_kW))
             => df_candidatos[i].N_par < df_candidatos[j].N_par
        /\ \A c \in MinPowerRows : mejor.N_par <= c.N_par

\* C8 amended: with equal powers the ranked list is still a rearrangement of the
\* candidates and the selected one is a candidate of minimum power, but which of
\* the equal-power candidates comes first is not fixed (the default sort kind is
\* not stable): the selected one need not have the smallest N_par.
C8_SelectsSomeMinimum ==
    Done =>
        /\ Rows(df_candidatos) = Rows(candidatos)
        /\ Cardinality(Rows(df_candidatos)) = Len(df_candidatos)
        /\ mejor \in MinPowerRows

\* two candidates of minimum power, and the one selected is not the first found
C8_Witness ==
    /\ Done /\ Cardinality(MinPowerRows) >= 2
    /\ \E c \in MinPowerRows : c.N_par < mejor.N_par

\* C9 as stated: a run ends with a complete candidate list, or with one of the
\* two declared kinds of error and no list: bad curve samples (here the ValueError
\* and IndexError that too few samples raise) or no candidate (RuntimeError);
\* never with another exception, such as a division by zero, or a partly built
\* list.
C9_NoPartialFailure ==
    (pc \in {"done", "failed"}) =>
        \/ Done /\ error = None /\ Len(df_candidatos) = NparStop - NparFirst
        \/ /\ pc = "failed" /\ candidatos = <<>>
           /\ error \in {"ValueError", "IndexError", "RuntimeError"}

\* C10 as stated: N_est is the least whole number of stations covering the head:
\* N_est = ceil(H_total / H_bomba_m), N_est * H_bomba_m >= H_total and
\* (N_est - 1) * H_bomba_m < H_total.
C10_MinimalStations ==
    \A i \in 1..Len(candidatos) :
        LET c == candidatos[i]
        IN  /\ c.N_est = Ceil(FDiv(H_total, c.H_bomba_m))
            /\ FLe(H_total, FMul(R(c.N_est), c.H_bomba_m))
            /\ FLt(FMul(R(c.N_est - 1), c.H_bomba_m), H_total)

\* the loop over N_par has run to its end
LoopOver == (pc = "loop" /\ N_par = NparStop) \/ Done

\* C11: the search rejects no candidate: the i-th record is that of N_par = i with
\* Q_bomba_Ls = Q_total_Ls / N_par, and after the enumeration there is one record
\* for each N_par in 1..9, whether or not the per-pump flow lies within
\* q_min_curve..q_max_curve.
C11_NoCandidateRejected ==
    /\ pc \in {"loop", "done"} =>
         \A i \in 1..Len(candidatos) :
             /\ candidatos[i].N_par = NparFirst + i - 1
             /\ candidatos[i].Q_bomba_Ls = Norm(Q_total_Ls, candidatos[i].N_par)
    /\ LoopOver => Len(candidatos) = NparStop - NparFirst

\* the script's run: nine records, those of N_par = 1 and 2 beyond q_max_curve
C11_Witness ==
    /\ ScriptInputs /\ Done /\ Len(candidatos) = 9
    /\ FLt(q_max_curve, candidatos[1].Q_bomba_Ls)
    /\ FLt(q_max_curve, candidatos[2].Q_bomba_Ls)
    /\ FLe(q_min_curve, candidatos[9].Q_bomba_Ls)

\* C13 as stated: in the script's own run every candidate, and so the selected
\* one, has a positive head per pump, at least one station and a positive total
\* power.
C13_PhysicallyMeaningful ==
    ScriptInputs =>
        /\ \A i \in 1..Len(candidatos) :
             /\ FLt(R(0), candidatos[i].H_bomba_m)
             /\ candidatos[i].N_est >= 1
             /\ FLt(R(0), candidatos[i].P_total_kW)
        /\ Done => (/\ FLt(R(0), mejor.H_bomba_m)
                    /\ mejor.N_est >= 1
                    /\ FLt(R(0), mejor.P_total_kW))

\* C12 as stated (under SpecFinal, where y_new is the value final.py's evaluator
\* returned): the evaluator of final.py extends the edge segment outside the sampled
\* range, as its docstring says, and so returns what the evaluator of master.py
\* returns for the same points and flow.
C12_FinalExtrapolates ==
    (Evaluated /\ ValidPoints) =>
        /\ y_new = f(build_interp(points), q_new)
        /\ FLt(q_new, R(MinFlow)) =>
             y_new.val = LineThrough(MinFlow, SecondFlow, q_new)
        /\ FLt(R(MaxFlow_), q_new) =>
             y_new.val = LineThrough(SecondLastFlow, MaxFlow_, q_new)

-----------------------------------------------------------------------------
(* Properties of the wall-thickness table (under SpecTable) *)

\* the station whose segment list holds segment id
StationOf(id) == CHOOSE i \in 1..Len(estaciones) : id \in estaciones[i].tramos

\* C14 as stated: every row of the table carries the design head of the station
\* whose segment list contains the row's segment: Est1 for 2-3 and 3-4, Est2 for
\* 4-5 and 5-6, Est3 for 6-7, 7-8 and 8-9.
C14_HeadOfOwnStation ==
    \A k \in 1..Len(tramos_est) :
        tramos_est[k].Head = estaciones[StationOf(tramos_est[k].Tramo)].H

-----------------------------------------------------------------------------
(* Properties of the per-station breakdown (under SpecStations) *)

SegmentsOf(st) == {stations_segments[st][j] : j \in 1..Len(stations_segments[st])}

\* C15: the three stations' segment lists are disjoint and together cover the seven
\* segments; each station's elevation difference alts[n_fin] - alts[n_ini] is the
\* sum of dZ over its segments; and once the breakdown is complete the station
\* heads H_st = dz_st + hf_st add up to H_total = H_static + hf_total.
C15_BreakdownConsistent ==
    /\ \A a, b \in 1..3 : a # b => SegmentsOf(a) \cap SegmentsOf(b) = {}
    /\ UNION {SegmentsOf(st) : st \in 1..3} = 0..(Len(dZ) - 1)
    /\ \A k \in 1..Len(desglose) :
           /\ desglose[k].dz_st = ISum(Pick(dZ, stations_segments[desglose[k].st]))
           /\ desglose[k].H_st = FAdd(R(desglose[k].dz_st), desglose[k].hf_st)
    /\ spc = "done" =>
           /\ H_total = FAdd(R(H_static), hf_total)
           /\ FSum([k \in 1..Len(desglose) |-> desglose[k].H_st]) = H_total

C15_Witness ==
    /\ spc = "done" /\ Len(desglose) = 3
    /\ desglose[1].dz_st = 885 /\ desglose[2].dz_st = 742 /\ desglose[3].dz_st = 527
    /\ hf_por_m = Norm(3, GradientDen)
    /\ FLt(R(ISum(dZ)), H_total)
=============================================================================
